---- MODULE Spec2Model ----
(***************************************************************************)
(* A model of mt4bridge.MT4Bridge (src/mt4bridge/bridge.py): a client that *)
(* formats a command string, sends it over one ZeroMQ REQ socket, blocks   *)
(* for the reply and decodes the reply with json.loads(parse_float=Decimal)*)
(*                                                                         *)
(* Request strings are TLA+ strings (built with \o, as the f-strings build *)
(* them).  Reply texts are sequences of one-character strings, so that the *)
(* JSON decoder can be modelled character by character.                    *)
(***************************************************************************)
EXTENDS Integers, Sequences, FiniteSets, TLC

(***************************************************************************)
(* Python values, as json.loads(parse_float=Decimal) builds them.          *)
(* A Decimal is sign, coefficient, exponent: (-1)^sign * coef * 10^exp.    *)
(* A dict is its items in insertion order, keys unique.                    *)
(***************************************************************************)
None == [t |-> "None"]

PyBool(b) == [t |-> "bool", bv |-> b]

PyInt(n) == [t |-> "int", iv |-> n]

PyDecimal(s, c, e) == [t |-> "Decimal", sign |-> s, coef |-> c, exp |-> e]

PyStr(cs) == [t |-> "str", sv |-> cs]

PyList(xs) == [t |-> "list", lv |-> xs]

PyDict(items) == [t |-> "dict", dv |-> items]

\* A binary float m / 2^FloatBits (what json.loads builds without parse_float).
FloatBits == 10

PyFloat(m) == [t |-> "float", m |-> m]

(***************************************************************************)
(* Characters.                                                             *)
(***************************************************************************)
DigitChars == <<"0", "1", "2", "3", "4", "5", "6", "7", "8", "9">>

IsDigit(c) == \E i \in 1..10 : DigitChars[i] = c

DigitVal(c) == (CHOOSE i \in 1..10 : DigitChars[i] = c) - 1

IsWs(c) == c \in {" ", "\t", "\n", "\r"}

RECURSIVE Pow(_, _)
Pow(b, n) == IF n = 0 THEN 1 ELSE b * Pow(b, n - 1)

RECURSIVE DigitsToInt(_)
DigitsToInt(ds) ==
    IF ds = <<>> THEN 0
    ELSE 10 * DigitsToInt(SubSeq(ds, 1, Len(ds) - 1)) + DigitVal(ds[Len(ds)])

RECURSIVE NatToChars(_)
NatToChars(n) ==
    IF n < 10 THEN <<DigitChars[n + 1]>>
    ELSE NatToChars(n \div 10) \o <<DigitChars[(n % 10) + 1]>>

RECURSIVE StripZeros(_)
StripZeros(ds) ==
    IF Len(ds) > 0 /\ ds[1] = "0" THEN StripZeros(Tail(ds)) ELSE ds

(***************************************************************************)
(* dict(pairs): a later pair with a key already present replaces its value *)
(* and keeps the key's first position.                                     *)
(***************************************************************************)
HasKey(items, k) == \E i \in 1..Len(items) : items[i][1] = k

DictGet(items, k) == items[CHOOSE i \in 1..Len(items) : items[i][1] = k][2]

DictSet(items, k, v) ==
    IF HasKey(items, k)
    THEN [i \in 1..Len(items) |-> IF items[i][1] = k THEN <<k, v>> ELSE items[i]]
    ELSE Append(items, <<k, v>>)

(***************************************************************************)
(* decimal.Decimal(text), the parse_float hook of bridge.py line 157.      *)
(* text is integer part, fraction digits, exponent sign and digits.  The   *)
(* conversion is exact; an exponent beyond the decimal module's range      *)
(* (999999999999999999, 18 digits) raises decimal.InvalidOperation,        *)
(* which is not a json.JSONDecodeError.                                    *)
(***************************************************************************)
EMAX_DIGITS == 18

Ok(v, e) == [ok |-> TRUE, val |-> v, end |-> e, exc |-> "none"]

Err(x, e) == [ok |-> FALSE, val |-> None, end |-> e, exc |-> x]

\* float(text) for an exponent of up to three digits: the nearest multiple of
\* 2^-FloatBits.
NearestBinary(neg, c, x, e) ==
    Ok(PyFloat((IF neg THEN 0 - 1 ELSE 1)
               * ((2 * c * Pow(2, FloatBits) * (IF x > 0 THEN Pow(10, x) ELSE 1)
                   + (IF x < 0 THEN Pow(10, 0 - x) ELSE 1))
                  \div (2 * (IF x < 0 THEN Pow(10, 0 - x) ELSE 1)))),
       e)

\* A slip: parse_float left at float, which rounds to binary (and gives inf
\* or 0.0 beyond its range) instead of keeping the decimal.
ParseFloatBinary(neg, ints, fracs, eneg, exps, e) ==
    IF Len(StripZeros(exps)) > 3
    THEN Ok(IF eneg THEN PyFloat(0) ELSE [t |-> "float", inf |-> TRUE], e)
    ELSE NearestBinary(neg, DigitsToInt(ints \o fracs),
                       (IF eneg THEN 0 - 1 ELSE 1) * DigitsToInt(StripZeros(exps))
                           - Len(fracs),
                       e)

ParseFloat(neg, ints, fracs, eneg, exps, e) ==
    LET sig == StripZeros(exps)
    IN IF (~eneg /\ Len(sig) > EMAX_DIGITS) \/ (eneg /\ Len(sig) > EMAX_DIGITS + 1)
       THEN Err("InvalidOperation", e)
       ELSE Ok(PyDecimal(IF neg THEN 1 ELSE 0,
                         DigitsToInt(ints \o fracs),
                         (IF eneg THEN 0 - 1 ELSE 1) * DigitsToInt(sig) - Len(fracs)),
               e)

\* parse_int: int(text).
ParseInt(neg, ints, e) ==
    Ok(PyInt(IF neg THEN 0 - DigitsToInt(ints) ELSE DigitsToInt(ints)), e)

(***************************************************************************)
(* json.loads: the scanner of the standard library's json.decoder and      *)
(* json.scanner, on a text without string escapes.                         *)
(***************************************************************************)
At(s, i) == IF i >= 1 /\ i <= Len(s) THEN s[i] ELSE "EOF"

RECURSIVE SkipWs(_, _)
SkipWs(s, i) == IF IsWs(At(s, i)) THEN SkipWs(s, i + 1) ELSE i

RECURSIVE SkipDigits(_, _)
SkipDigits(s, i) == IF IsDigit(At(s, i)) THEN SkipDigits(s, i + 1) ELSE i

Slice(s, i, j) == SubSeq(s, i, j - 1)

StartsWith(s, i, w) == i + Len(w) - 1 <= Len(s) /\ Slice(s, i, i + Len(w)) = w

\* scanstring: i is the index after the opening quote.
RECURSIVE StringEnd(_, _)
StringEnd(s, i) ==
    IF i > Len(s) THEN 0
    ELSE IF s[i] = "\"" THEN i
    ELSE StringEnd(s, i + 1)

ScanString(s, i) ==
    LET q == StringEnd(s, i)
    IN IF q = 0 THEN Err("JSONDecodeError", i)
       ELSE Ok(PyStr(Slice(s, i, q)), q + 1)

\* NUMBER_RE = (-?(?:0|[1-9]\d*))(\.\d+)?([eE][-+]?\d+)?
MatchNumber(s, i) ==
    LET neg == At(s, i) = "-"
        i1 == IF neg THEN i + 1 ELSE i
        i2 == IF At(s, i1) = "0" THEN i1 + 1 ELSE SkipDigits(s, i1)
        hasFrac == At(s, i2) = "." /\ IsDigit(At(s, i2 + 1))
        i3 == IF hasFrac THEN SkipDigits(s, i2 + 1) ELSE i2
        isE == At(s, i3) \in {"e", "E"}
        hasSign == isE /\ At(s, i3 + 1) \in {"+", "-"}
        d0 == IF hasSign THEN i3 + 2 ELSE i3 + 1
        hasExp == isE /\ IsDigit(At(s, d0))
        i4 == IF hasExp THEN SkipDigits(s, d0) ELSE i3
    IN [matched |-> i2 > i1,
        neg |-> neg,
        ints |-> Slice(s, i1, i2),
        hasFrac |-> hasFrac,
        fracs |-> IF hasFrac THEN Slice(s, i2 + 1, i3) ELSE <<>>,
        hasExp |-> hasExp,
        eneg |-> hasExp /\ hasSign /\ At(s, i3 + 1) = "-",
        exps |-> IF hasExp THEN Slice(s, d0, i4) ELSE <<>>,
        end |-> i4]

RECURSIVE ScanOnce(_, _)
RECURSIVE ParseArray(_, _, _)
RECURSIVE ParseObject(_, _, _)

\* JSONArray after a value r: ']' ends the array, ',' continues it.
ArrayAfterValue(s, xs, j) ==
    IF At(s, j) = "]" THEN Ok(PyList(xs), j + 1)
    ELSE IF At(s, j) = "," THEN ParseArray(s, SkipWs(s, j + 1), xs)
    ELSE Err("JSONDecodeError", j)

ArrayValue(s, acc, r) ==
    IF ~r.ok THEN r ELSE ArrayAfterValue(s, Append(acc, r.val), SkipWs(s, r.end))

\* JSONArray after '[' and the first whitespace: i is at the next value.
ParseArray(s, i, acc) == ArrayValue(s, acc, ScanOnce(s, i))

\* JSONObject after a member: '}' ends the object, ',' continues it.
ObjectAfterValue(s, items, j) ==
    IF At(s, j) = "}" THEN Ok(PyDict(items), j + 1)
    ELSE IF At(s, j) = "," THEN ParseObject(s, SkipWs(s, j + 1), items)
    ELSE Err("JSONDecodeError", j)

ObjectValue(s, acc, key, r) ==
    IF ~r.ok THEN r
    ELSE ObjectAfterValue(s, DictSet(acc, key, r.val), SkipWs(s, r.end))

ObjectColon(s, acc, key, c) ==
    IF At(s, c) # ":" THEN Err("JSONDecodeError", c)
    ELSE ObjectValue(s, acc, key, ScanOnce(s, SkipWs(s, c + 1)))

ObjectKey(s, acc, k) ==
    IF ~k.ok THEN k ELSE ObjectColon(s, acc, k.val.sv, SkipWs(s, k.end))

\* JSONObject: i is at the opening quote of the next key.
ParseObject(s, i, acc) ==
    IF At(s, i) # "\"" THEN Err("JSONDecodeError", i)
    ELSE ObjectKey(s, acc, ScanString(s, i + 1))

ScanNumber(m, i) ==
    IF ~m.matched THEN Err("JSONDecodeError", i)
    ELSE IF m.hasFrac \/ m.hasExp
    THEN ParseFloat(m.neg, m.ints, m.fracs, m.eneg, m.exps, m.end)
    ELSE ParseInt(m.neg, m.ints, m.end)

ObjectOpen(s, j) ==
    IF At(s, j) = "}" THEN Ok(PyDict(<<>>), j + 1) ELSE ParseObject(s, j, <<>>)

ArrayOpen(s, j) ==
    IF At(s, j) = "]" THEN Ok(PyList(<<>>), j + 1) ELSE ParseArray(s, j, <<>>)

\* scan_once of json.scanner.
ScanOnce(s, i) ==
    IF At(s, i) = "\"" THEN ScanString(s, i + 1)
    ELSE IF At(s, i) = "{" THEN ObjectOpen(s, SkipWs(s, i + 1))
    ELSE IF At(s, i) = "[" THEN ArrayOpen(s, SkipWs(s, i + 1))
    ELSE IF StartsWith(s, i, <<"n", "u", "l", "l">>) THEN Ok(None, i + 4)
    ELSE IF StartsWith(s, i, <<"t", "r", "u", "e">>) THEN Ok(PyBool(TRUE), i + 4)
    ELSE IF StartsWith(s, i, <<"f", "a", "l", "s", "e">>) THEN Ok(PyBool(FALSE), i + 5)
    ELSE ScanNumber(MatchNumber(s, i), i)

\* JSONDecoder.decode: one value, whitespace around it, nothing after it.
LoadsEnd(s, r, j) == IF j # Len(s) + 1 THEN Err("JSONDecodeError", j) ELSE r

LoadsValue(s, r) == IF ~r.ok THEN r ELSE LoadsEnd(s, r, SkipWs(s, r.end))

Loads(s) == LoadsValue(s, ScanOnce(s, SkipWs(s, 1)))

(***************************************************************************)
(* The remote endpoint's serializer: json.dumps as the tests build replies *)
(* (", " and ": " separators), and the compact form of the spec's example. *)
(* A Decimal with a negative exponent is written with that many fraction   *)
(* digits, trailing zeros included (1.02910).                              *)
(***************************************************************************)
RECURSIVE Zeros(_)
Zeros(n) == IF n <= 0 THEN <<>> ELSE <<"0">> \o Zeros(n - 1)

DecimalText(d) ==
    LET n == 0 - d.exp
        raw == NatToChars(d.coef)
        ds == Zeros(n + 1 - Len(raw)) \o raw
    IN (IF d.sign = 1 THEN <<"-">> ELSE <<>>)
       \o SubSeq(ds, 1, Len(ds) - n) \o <<".">> \o SubSeq(ds, Len(ds) - n + 1, Len(ds))

RECURSIVE Dumps(_, _)
RECURSIVE DumpsItems(_, _, _)
DumpsItems(xs, isDict, compact) ==
    IF xs = <<>> THEN <<>>
    ELSE (IF isDict
          THEN <<"\"">> \o xs[1][1] \o <<"\"">>
               \o (IF compact THEN <<":">> ELSE <<":", " ">>)
               \o Dumps(xs[1][2], compact)
          ELSE Dumps(xs[1], compact))
         \o (IF Len(xs) = 1 THEN <<>>
             ELSE (IF compact THEN <<",">> ELSE <<",", " ">>)
                  \o DumpsItems(Tail(xs), isDict, compact))

Dumps(v, compact) ==
    CASE v.t = "None" -> <<"n", "u", "l", "l">>
      [] v.t = "bool" -> IF v.bv THEN <<"t", "r", "u", "e">> ELSE <<"f", "a", "l", "s", "e">>
      [] v.t = "int" -> (IF v.iv < 0 THEN <<"-">> ELSE <<>>)
                        \o NatToChars(IF v.iv < 0 THEN 0 - v.iv ELSE v.iv)
      [] v.t = "Decimal" -> DecimalText(v)
      [] v.t = "str" -> <<"\"">> \o v.sv \o <<"\"">>
      [] v.t = "list" -> <<"[">> \o DumpsItems(v.lv, FALSE, compact) \o <<"]">>
      [] v.t = "dict" -> <<"{">> \o DumpsItems(v.dv, TRUE, compact) \o <<"}">>

(***************************************************************************)
(* Texts: Python strings as sequences of characters.                       *)
(***************************************************************************)
S_error == <<"e", "r", "r", "o", "r">>

S_symbol == <<"s", "y", "m", "b", "o", "l">>

S_EURUSDa == <<"E", "U", "R", "U", "S", "D", ".", "a">>

S_bid == <<"b", "i", "d">>

S_ask == <<"a", "s", "k">>

S_last == <<"l", "a", "s", "t">>

S_volume == <<"v", "o", "l", "u", "m", "e">>

S_time == <<"t", "i", "m", "e">>

S_open == <<"o", "p", "e", "n">>

S_high == <<"h", "i", "g", "h">>

S_low == <<"l", "o", "w">>

S_close == <<"c", "l", "o", "s", "e">>

S_tf == <<"t", "f">>

S_shift == <<"s", "h", "i", "f", "t">>

S_ma == <<"m", "a">>

S_M1 == <<"M", "1">>

S_H1 == <<"H", "1">>

(***************************************************************************)
(* The documents the remote endpoint replies with: those of the unit tests *)
(* and of the spec's examples, and the shapes the decoder tells apart.     *)
(***************************************************************************)
\* test_get_current_tick_success
TickDoc ==
    PyDict(<< <<S_symbol, PyStr(S_EURUSDa)>>,
              <<S_bid, PyDecimal(0, 123456, -5)>>,
              <<S_ask, PyDecimal(0, 123478, -5)>>,
              <<S_last, PyDecimal(0, 123470, -5)>>,
              <<S_volume, PyInt(123)>>,
              <<S_time, PyStr(<<"2", "0", "2", "5", ".", "0", "1", ".", "0", "1", " ", "1", "2", ":", "3", "4">>)>> >>)

\* test_get_historical_data_success
HistDoc ==
    PyList(<< PyDict(<< <<S_time, PyStr(<<"2", "0", "2", "4", ".", "1", "2", ".", "3", "1", " ", "2", "3", ":", "0", "0">>)>>,
                        <<S_open, PyDecimal(0, 102910, -5)>>,
                        <<S_high, PyDecimal(0, 103010, -5)>>,
                        <<S_low, PyDecimal(0, 102900, -5)>>,
                        <<S_close, PyDecimal(0, 102950, -5)>>,
                        <<S_volume, PyInt(163)>> >>) >>)

\* test_get_all_timeframes_success
TimeframesDoc ==
    PyList(<< PyDict(<< <<S_tf, PyStr(S_M1)>>,
                        <<S_close, PyDecimal(0, 123470, -5)>>,
                        <<S_volume, PyInt(123)>> >>),
              PyDict(<< <<S_tf, PyStr(S_H1)>>,
                        <<S_close, PyDecimal(0, 123480, -5)>>,
                        <<S_volume, PyInt(150)>> >>) >>)

\* test_get_indicator_success
IndicatorDoc ==
    PyList(<< PyDict(<< <<S_tf, PyStr(S_H1)>>,
                        <<S_shift, PyInt(0)>>,
                        <<S_ma, PyDecimal(0, 102910, -5)>> >>),
              PyDict(<< <<S_tf, PyStr(S_H1)>>,
                        <<S_shift, PyInt(1)>>,
                        <<S_ma, PyDecimal(0, 102920, -5)>> >>) >>)

\* Negative and sub-unit numbers.
SignedDoc ==
    PyList(<< PyDict(<< <<S_shift, PyInt(-1)>>,
                        <<S_ma, PyDecimal(1, 5, -1)>>,
                        <<S_low, PyDecimal(0, 7, -3)>> >>) >>)

EmptyListDoc == PyList(<<>>)

NullDoc == None

\* test_send_request_ea_error
ErrorDoc == PyDict(<< <<S_error, PyStr(<<"S", "y", "m", "b", "o", "l", " ", "n", "o", "t", " ", "f", "o", "u", "n", "d">>)>> >>)

ErrorNullDoc == PyDict(<< <<S_error, None>> >>)

ErrorExtraDoc ==
    PyDict(<< <<S_symbol, PyStr(S_EURUSDa)>>, <<S_error, PyInt(0)>>, <<S_bid, PyInt(1)>> >>)

\* Not mappings: a string and a list that hold the word error.
ErrorStrDoc == PyStr(S_error)

ErrorListDoc == PyList(<<PyStr(S_error)>>)

Docs ==
    {TickDoc, HistDoc, TimeframesDoc, IndicatorDoc, SignedDoc, EmptyListDoc, NullDoc,
     ErrorDoc, ErrorNullDoc, ErrorExtraDoc, ErrorStrDoc, ErrorListDoc}

IsErrorMapping(d) == d.t = "dict" /\ HasKey(d.dv, S_error)

\* Replies that are no JSON document, or one the decoder cannot build.
InvalidJson == <<"I", "N", "V", "A", "L", "I", "D", "_", "J", "S", "O", "N">>

TrailingComma == <<"[", "1", ",", "]">>

Truncated == <<"{", "\"", "b", "i", "d", "\"", ":", " ", "1", ".", "2">>

Blank == <<" ">>

ExtraData == <<"{", "}", " ", "x">>

ExponentOverflow == <<"1", "e", "1", "0", "0", "0", "0", "0", "0", "0", "0", "0", "0", "0", "0", "0", "0", "0", "0", "0", "0">>

\* A JSON object that names a field twice.
DuplicateKeys == <<"{", "\"", "b", "i", "d", "\"", ":", "1", ",", "\"", "b", "i", "d", "\"", ":", "2", "}">>

EmptyReply == <<>>

RawReplies ==
    {InvalidJson, TrailingComma, Truncated, Blank, ExtraData, ExponentOverflow, DuplicateKeys}

DocReplies == {Dumps(d, c) : d \in Docs, c \in BOOLEAN}

Replies == DocReplies \cup RawReplies \cup {EmptyReply}

(***************************************************************************)
(* Request encoding: the f-strings of the four accessors.                  *)
(***************************************************************************)
FormatHist(symbol, timeframe, bars) ==
    "HIST:" \o symbol \o ":" \o timeframe \o ":" \o ToString(bars)

FormatCurrent(symbol) == "CURRENT:" \o symbol

FormatTimeframes(symbol) == "TIMEFRAMES:" \o symbol

\* A slip: an empty parameter list leaves its field out.
FormatIndicatorSkipEmpty(symbol, timeframe, indicator_name, params, bars) ==
    "INDICATOR:" \o symbol \o ":" \o timeframe \o ":" \o indicator_name
        \o (IF params = "" THEN "" ELSE ":" \o params) \o ":" \o ToString(bars)

FormatIndicator(symbol, timeframe, indicator_name, params, bars) ==
    "INDICATOR:" \o symbol \o ":" \o timeframe \o ":" \o indicator_name
        \o ":" \o params \o ":" \o ToString(bars)

(***************************************************************************)
(* _parse_response(reply): what it returns or raises, the [Error] lines it *)
(* prints (by failure class) and whether json.loads was called.            *)
(***************************************************************************)
Returned(v, d, j) == [raised |-> FALSE, val |-> v, exc |-> "none", diag |-> d, json |-> j]

Raised(x) == [raised |-> TRUE, val |-> None, exc |-> x, diag |-> <<>>, json |-> TRUE]

\* A slip: "error" in data without isinstance(data, dict), which is also true
\* of a string that contains the word and of a list that holds it.
DecodedNoIsinstance(r) ==
    IF ~r.ok
    THEN IF r.exc = "JSONDecodeError"
         THEN Returned(None, <<"MalformedReply">>, TRUE)
         ELSE Raised(r.exc)
    ELSE IF \/ r.val.t = "dict" /\ HasKey(r.val.dv, S_error)
            \/ r.val.t = "str" /\ r.val.sv = S_error
            \/ r.val.t = "list" /\ \E i \in 1..Len(r.val.lv) : r.val.lv[i] = PyStr(S_error)
    THEN Returned(None, <<"RemoteError">>, TRUE)
    ELSE Returned(r.val, <<>>, TRUE)

Truthy(v) ==
    ~(v = None \/ v = PyInt(0) \/ v = PyBool(FALSE) \/ v = PyStr(<<>>)
        \/ v = PyList(<<>>) \/ v = PyDict(<<>>))

\* A slip: data.get("error") instead of "error" in data.
DecodedTruthyError(r) ==
    IF ~r.ok
    THEN IF r.exc = "JSONDecodeError"
         THEN Returned(None, <<"MalformedReply">>, TRUE)
         ELSE Raised(r.exc)
    ELSE IF r.val.t = "dict" /\ HasKey(r.val.dv, S_error)
            /\ Truthy(DictGet(r.val.dv, S_error))
    THEN Returned(None, <<"RemoteError">>, TRUE)
    ELSE Returned(r.val, <<>>, TRUE)

\* A slip: `if not data` treated as no result, which takes an empty array
\* for a failure.
DecodedFalsyNoResult(r) ==
    IF ~r.ok
    THEN IF r.exc = "JSONDecodeError"
         THEN Returned(None, <<"MalformedReply">>, TRUE)
         ELSE Raised(r.exc)
    ELSE IF r.val.t = "dict" /\ HasKey(r.val.dv, S_error)
    THEN Returned(None, <<"RemoteError">>, TRUE)
    ELSE IF ~Truthy(r.val)
    THEN Returned(None, <<>>, TRUE)
    ELSE Returned(r.val, <<>>, TRUE)

\* After json.loads: the except clause and the test for an error field.
Decoded(r) ==
    IF ~r.ok
    THEN IF r.exc = "JSONDecodeError"
         THEN Returned(None, <<"MalformedReply">>, TRUE)
         ELSE Raised(r.exc)
    ELSE IF r.val.t = "dict" /\ HasKey(r.val.dv, S_error)
    THEN Returned(None, <<"RemoteError">>, TRUE)
    ELSE Returned(r.val, <<>>, TRUE)

\* A slip: no test for the empty reply before json.loads.
ParseResponseNoEmptyCheck(reply) == Decoded(Loads(reply))

ParseResponse(reply) ==
    IF reply = <<>> THEN Returned(None, <<"EmptyReply">>, FALSE)
    ELSE Decoded(Loads(reply))

(***************************************************************************)
(* The ZeroMQ REQ socket.  send_string raises zmq.ZMQError on a closed     *)
(* socket (ENOTSOCK), while a sent request still awaits its reply (EFSM),  *)
(* or when the transport cannot take the message.                         *)
(***************************************************************************)
\* A slip: a relaxed REQ socket, which takes a new request while the reply
\* to the last one is still awaited.
SendResultRelaxed(b, s, transportOk) ==
    IF b = "closed" THEN "ENOTSOCK"
    ELSE IF transportOk THEN "ok"
    ELSE "ZMQError"

SendResult(b, s, transportOk) ==
    IF b = "closed" THEN "ENOTSOCK"
    ELSE IF s = "awaiting" THEN "EFSM"
    ELSE IF transportOk THEN "ok"
    ELSE "ZMQError"

\* A slip: send_request returns without calling recv_string.
AfterSendNoRecv(outcome) == "return_empty"

\* A slip: send_request goes on to recv_string after a failed send.
AfterSendAlwaysRecv(outcome) == "recv"

\* send_request after send_string: wait in recv_string, or return "".
AfterSend(outcome) == IF outcome = "ok" THEN "recv" ELSE "return_empty"

(***************************************************************************)
(* Bounds and inputs.                                                      *)
(***************************************************************************)
MaxCalls == 3

Threads == {1, 2}

Callers == {1}

Symbols == {"EURUSD.a", ""}

Timeframes == {"H1"}

IndicatorNames == {"MA"}

ParamLists == {"14,0,1,0", ""}

BarCounts == {10, -1}

\* The concurrent specification's inputs.
ConcSymbols == {"EURUSD.a"}

ConcParamLists == {"14"}

ConcBarCounts == {5}

ConcReplies == {Dumps(TickDoc, FALSE), Dumps(ErrorDoc, FALSE), EmptyReply}

NoMsg == "<none>"

NoText == <<"<none>">>

Unset == <<"<unset>">>

UnsetValue == [t |-> "unset"]

NoReq ==
    [op |-> "none", symbol |-> "", timeframe |-> "", indicator_name |-> "",
     params |-> "", bars |-> 0]

Req(op, symbol, timeframe, indicator_name, params, bars) ==
    [op |-> op, symbol |-> symbol, timeframe |-> timeframe,
     indicator_name |-> indicator_name, params |-> params, bars |-> bars]

\* Which call a message on the channel belongs to: the caller and the number
\* of its call.
NoTag == [caller |-> 0, call |-> 0]

Tag(t, n) == [caller |-> t, call |-> n]

\* How a call ended, kept while the caller's next call repeats its arguments.
NoPrev ==
    [pc |-> "none", sent |-> <<>>, sendOutcome |-> "none", recvOutcome |-> "none",
     reply |-> Unset, result |-> UnsetValue, exc |-> "none", diag |-> <<>>]

Ended(p, s, so, ro, rp, res, x, d) ==
    [pc |-> p, sent |-> s, sendOutcome |-> so, recvOutcome |-> ro,
     reply |-> rp, result |-> res, exc |-> x, diag |-> d]

(***************************************************************************)
(* State.                                                                  *)
(***************************************************************************)
VARIABLES
    bridge,       \* "connecting", "open", "closed" or "connect_failed"
    connects,     \* socket.connect calls made by __init__
    sock,         \* the REQ socket: "ready" to send, or "awaiting" a reply
    endpointIn,   \* the request the endpoint holds and has not answered
    replyBuf,     \* the reply delivered to the socket and not yet received
    reqTag,       \* history: the call whose request the endpoint holds
    replyTag,     \* history: the call whose request replyBuf answers
    pc,           \* per caller: "idle", "recv" (blocked), "returned", "raised"
    ncalls,       \* per caller: accessor calls begun
    req,          \* per caller: the arguments of its current or last call
    sent,         \* per caller: the strings that call passed to send_string
    sendOutcome,  \* per caller: "ok" or the error send_string raised
    recvs,        \* per caller: recv_string calls that call completed
    recvOutcome,  \* per caller: "ok" or the error recv_string raised
    reply,        \* per caller: what send_request returned
    jsonCalled,   \* per caller: whether _parse_response called json.loads
    diag,         \* per caller: the failure classes that call printed
    result,       \* per caller: the value the accessor returned
    exc,          \* per caller: the exception the accessor raised
    repeatOf      \* history, per caller: how its previous call ended, when
                  \* the current call has the same arguments

chanVars == <<sock, endpointIn, replyBuf, reqTag, replyTag>>

callVars ==
    <<pc, ncalls, req, sent, sendOutcome, recvs, recvOutcome, reply, jsonCalled,
      diag, result, exc, repeatOf>>

vars == <<bridge, connects, chanVars, callVars>>

Init ==
    /\ bridge = "connecting"
    /\ connects = 0
    /\ sock = "ready"
    /\ endpointIn = NoMsg
    /\ replyBuf = NoText
    /\ reqTag = NoTag
    /\ replyTag = NoTag
    /\ pc = [t \in Threads |-> "idle"]
    /\ ncalls = [t \in Threads |-> 0]
    /\ req = [t \in Threads |-> NoReq]
    /\ sent = [t \in Threads |-> <<>>]
    /\ sendOutcome = [t \in Threads |-> "none"]
    /\ recvs = [t \in Threads |-> 0]
    /\ recvOutcome = [t \in Threads |-> "none"]
    /\ reply = [t \in Threads |-> Unset]
    /\ jsonCalled = [t \in Threads |-> FALSE]
    /\ diag = [t \in Threads |-> <<>>]
    /\ result = [t \in Threads |-> UnsetValue]
    /\ exc = [t \in Threads |-> "none"]
    /\ repeatOf = [t \in Threads |-> NoPrev]

TotalCalls == ncalls[1] + ncalls[2]

(***************************************************************************)
(* __init__: one socket.connect; a failure is re-raised.                   *)
(***************************************************************************)
\* A slip: __init__ tries socket.connect again after a failure.
ConnectRetry ==
    /\ bridge = "connecting"
    /\ connects < 2
    /\ connects' = connects + 1
    /\ \E ok \in BOOLEAN : bridge' = IF ok THEN "open" ELSE "connecting"
    /\ UNCHANGED <<chanVars, callVars>>

Connect ==
    /\ bridge = "connecting"
    /\ connects' = connects + 1
    /\ \E ok \in BOOLEAN : bridge' = IF ok THEN "open" ELSE "connect_failed"
    /\ UNCHANGED <<chanVars, callVars>>

(***************************************************************************)
(* The end of an accessor call: _parse_response on what send_request       *)
(* returned, then the return (or the exception) to the caller.             *)
(***************************************************************************)
Outcome(t, raw, printed, p) ==
    /\ reply' = [reply EXCEPT ![t] = raw]
    /\ jsonCalled' = [jsonCalled EXCEPT ![t] = p.json]
    /\ diag' = [diag EXCEPT ![t] = printed \o p.diag]
    /\ result' = [result EXCEPT ![t] = IF p.raised THEN UnsetValue ELSE p.val]
    /\ exc' = [exc EXCEPT ![t] = p.exc]
    /\ pc' = [pc EXCEPT ![t] = IF p.raised THEN "raised" ELSE "returned"]

Finish(t, raw, printed) == Outcome(t, raw, printed, ParseResponse(raw))

(***************************************************************************)
(* An accessor call up to the point where it blocks: the request string,   *)
(* send_request's send_string, and when that raised, the rest of the call. *)
(***************************************************************************)
Sent(t, r, wire, out) ==
    /\ ncalls' = [ncalls EXCEPT ![t] = @ + 1]
    /\ req' = [req EXCEPT ![t] = r]
    /\ sent' = [sent EXCEPT ![t] = <<wire>>]
    /\ sendOutcome' = [sendOutcome EXCEPT ![t] = out]
    /\ recvs' = [recvs EXCEPT ![t] = 0]
    /\ recvOutcome' = [recvOutcome EXCEPT ![t] = "none"]
    /\ IF out = "ok"
       THEN /\ sock' = "awaiting"
            /\ endpointIn' = wire
            /\ reqTag' = Tag(t, ncalls[t] + 1)
            /\ UNCHANGED <<replyBuf, replyTag>>
       ELSE UNCHANGED chanVars
    /\ IF AfterSend(out) = "recv"
       THEN /\ pc' = [pc EXCEPT ![t] = "recv"]
            /\ reply' = [reply EXCEPT ![t] = Unset]
            /\ jsonCalled' = [jsonCalled EXCEPT ![t] = FALSE]
            /\ diag' = [diag EXCEPT ![t] = <<>>]
            /\ result' = [result EXCEPT ![t] = UnsetValue]
            /\ exc' = [exc EXCEPT ![t] = "none"]
       ELSE Finish(t, <<>>, IF out = "ok" THEN <<>> ELSE <<"SendError">>)

Call(t, r, wire, prev) ==
    /\ bridge \in {"open", "closed"}
    /\ pc[t] \in {"idle", "returned", "raised"}
    /\ TotalCalls < MaxCalls
    /\ \E transportOk \in BOOLEAN :
          Sent(t, r, wire, SendResult(bridge, sock, transportOk))
    /\ repeatOf' = [repeatOf EXCEPT ![t] = prev]
    /\ UNCHANGED <<bridge, connects>>

Begin(t, r, wire) == Call(t, r, wire, NoPrev)

GetHistoricalData(t, symbol, timeframe, bars) ==
    Begin(t, Req("HIST", symbol, timeframe, "", "", bars),
          FormatHist(symbol, timeframe, bars))

GetCurrentTick(t, symbol) ==
    Begin(t, Req("CURRENT", symbol, "", "", "", 0), FormatCurrent(symbol))

GetAllTimeframes(t, symbol) ==
    Begin(t, Req("TIMEFRAMES", symbol, "", "", "", 0), FormatTimeframes(symbol))

GetIndicator(t, symbol, timeframe, indicator_name, params, bars) ==
    Begin(t, Req("INDICATOR", symbol, timeframe, indicator_name, params, bars),
          FormatIndicator(symbol, timeframe, indicator_name, params, bars))

\* The request string the accessor of r.op builds from r's arguments.
WireOf(r) ==
    CASE r.op = "HIST" -> FormatHist(r.symbol, r.timeframe, r.bars)
      [] r.op = "CURRENT" -> FormatCurrent(r.symbol)
      [] r.op = "TIMEFRAMES" -> FormatTimeframes(r.symbol)
      [] r.op = "INDICATOR" ->
            FormatIndicator(r.symbol, r.timeframe, r.indicator_name, r.params, r.bars)

(***************************************************************************)
(* The caller makes its last accessor call again, with the same arguments. *)
(***************************************************************************)
Repeat(t) ==
    /\ ncalls[t] > 0
    /\ Call(t, req[t], WireOf(req[t]),
            Ended(pc[t], sent[t], sendOutcome[t], recvOutcome[t], reply[t],
                  result[t], exc[t], diag[t]))

(***************************************************************************)
(* The remote endpoint answers the request it holds.                       *)
(***************************************************************************)
EndpointReply(text) ==
    /\ endpointIn # NoMsg
    /\ replyBuf = NoText
    /\ endpointIn' = NoMsg
    /\ replyBuf' = text
    /\ reqTag' = NoTag
    /\ replyTag' = reqTag
    /\ UNCHANGED <<bridge, connects, sock, callVars>>

(***************************************************************************)
(* recv_string returns the reply, and the call runs to its end.            *)
(***************************************************************************)
\* A slip: send_request polls with a timeout and returns "" without a
\* recv_string when no reply has come.
RecvReplyPollTimeout(t) ==
    /\ pc[t] = "recv"
    /\ sock = "awaiting"
    /\ IF replyBuf # NoText
       THEN /\ sock' = "ready"
            /\ replyBuf' = NoText
            /\ replyTag' = NoTag
            /\ recvs' = [recvs EXCEPT ![t] = @ + 1]
            /\ recvOutcome' = [recvOutcome EXCEPT ![t] = "ok"]
            /\ Finish(t, replyBuf, <<>>)
       ELSE /\ UNCHANGED <<sock, replyBuf, replyTag, recvs, recvOutcome>>
            /\ Finish(t, <<>>, <<>>)
    /\ UNCHANGED <<bridge, connects, endpointIn, reqTag, ncalls, req, sent,
                   sendOutcome, repeatOf>>

\* A slip: the reply is read without completing the socket's request/reply
\* cycle, so the socket goes on awaiting a reply.
RecvReplyStaysAwaiting(t) ==
    /\ pc[t] = "recv"
    /\ sock = "awaiting"
    /\ replyBuf # NoText
    /\ replyBuf' = NoText
    /\ replyTag' = NoTag
    /\ recvs' = [recvs EXCEPT ![t] = @ + 1]
    /\ recvOutcome' = [recvOutcome EXCEPT ![t] = "ok"]
    /\ Finish(t, replyBuf, <<>>)
    /\ UNCHANGED <<bridge, connects, sock, endpointIn, reqTag, ncalls, req, sent,
                   sendOutcome, repeatOf>>

RecvReply(t) ==
    /\ pc[t] = "recv"
    /\ sock = "awaiting"
    /\ replyBuf # NoText
    /\ sock' = "ready"
    /\ replyBuf' = NoText
    /\ replyTag' = NoTag
    /\ recvs' = [recvs EXCEPT ![t] = @ + 1]
    /\ recvOutcome' = [recvOutcome EXCEPT ![t] = "ok"]
    /\ Finish(t, replyBuf, <<>>)
    /\ UNCHANGED <<bridge, connects, endpointIn, reqTag, ncalls, req, sent,
                   sendOutcome, repeatOf>>

(***************************************************************************)
(* recv_string raises zmq.ZMQError: no reply is taken from the socket,     *)
(* which goes on awaiting it; send_request returns "".                     *)
(***************************************************************************)
\* A slip: after a failed recv_string the call tries to receive again.
RecvErrorRetry(t) ==
    /\ pc[t] = "recv"
    /\ recvs[t] < 2
    /\ recvs' = [recvs EXCEPT ![t] = @ + 1]
    /\ recvOutcome' = [recvOutcome EXCEPT ![t] = "ZMQError"]
    /\ UNCHANGED <<bridge, connects, chanVars, pc, ncalls, req, sent, sendOutcome,
                   reply, jsonCalled, diag, result, exc, repeatOf>>

RecvError(t) ==
    /\ pc[t] = "recv"
    /\ recvs' = [recvs EXCEPT ![t] = @ + 1]
    /\ recvOutcome' = [recvOutcome EXCEPT ![t] = "ZMQError"]
    /\ Finish(t, <<>>, <<"ReceiveError">>)
    /\ UNCHANGED <<bridge, connects, chanVars, ncalls, req, sent, sendOutcome,
                   repeatOf>>

(***************************************************************************)
(* close(): socket.close() and context.term(), between calls.              *)
(***************************************************************************)
Close ==
    /\ bridge = "open"
    /\ \A t \in Threads : pc[t] # "recv"
    /\ bridge' = "closed"
    /\ UNCHANGED <<connects, chanVars, callVars>>

Step(T, syms, params, bars, replies) ==
    \/ Connect
    \/ \E t \in T, s \in syms, tf \in Timeframes, b \in bars :
          GetHistoricalData(t, s, tf, b)
    \/ \E t \in T, s \in syms : GetCurrentTick(t, s)
    \/ \E t \in T, s \in syms : GetAllTimeframes(t, s)
    \/ \E t \in T, s \in syms, tf \in Timeframes, n \in IndicatorNames,
          p \in params, b \in bars : GetIndicator(t, s, tf, n, p, b)
    \/ \E text \in replies : EndpointReply(text)
    \/ \E t \in T : RecvReply(t)
    \/ \E t \in T : RecvError(t)
    \/ Close

\* One caller: the use the bridge is written for.
Next == Step(Callers, Symbols, ParamLists, BarCounts, Replies)

Spec == Init /\ [][Next]_vars

\* Two callers sharing one bridge, which takes no lock.
NextConc == Step(Threads, ConcSymbols, ConcParamLists, ConcBarCounts, ConcReplies)

SpecConc == Init /\ [][NextConc]_vars

\* One caller that also repeats its calls.
RepeatReplies ==
    {Dumps(TickDoc, FALSE), Dumps(HistDoc, TRUE), Dumps(EmptyListDoc, FALSE),
     Dumps(NullDoc, FALSE), Dumps(ErrorDoc, FALSE), InvalidJson, ExponentOverflow,
     EmptyReply}

NextRepeat ==
    \/ Step(Callers, ConcSymbols, ConcParamLists, ConcBarCounts, RepeatReplies)
    \/ \E t \in Callers : Repeat(t)

SpecRepeat == Init /\ [][NextRepeat]_vars

(***************************************************************************)
(* Definitions the properties share.                                       *)
(***************************************************************************)
Finished(t) == pc[t] \in {"returned", "raised"}

\* Every document with the texts the endpoint writes for it.
DocTable == {[text |-> Dumps(d, c), doc |-> d] : d \in Docs, c \in BOOLEAN}

\* The non-empty replies json.loads(parse_float=Decimal) fails on.
Unparseable == {r \in Replies \ {EmptyReply} : ~Loads(r).ok}

RECURSIVE JoinColon(_)
JoinColon(fs) ==
    IF Len(fs) = 1 THEN fs[1] ELSE fs[1] \o ":" \o JoinColon(Tail(fs))

Fields(r) ==
    CASE r.op = "HIST" -> <<"HIST", r.symbol, r.timeframe, ToString(r.bars)>>
      [] r.op = "CURRENT" -> <<"CURRENT", r.symbol>>
      [] r.op = "TIMEFRAMES" -> <<"TIMEFRAMES", r.symbol>>
      [] r.op = "INDICATOR" ->
            <<"INDICATOR", r.symbol, r.timeframe, r.indicator_name, r.params,
              ToString(r.bars)>>

\* Numeric comparison as Python compares int, Decimal and float: by value.
IsNum(v) == v.t \in {"int", "Decimal", "float"}

DecOf(v) ==
    IF v.t = "int" THEN [c |-> v.iv, e |-> 0]
    ELSE [c |-> IF v.sign = 1 THEN 0 - v.coef ELSE v.coef, e |-> v.exp]

MinOf(a, b) == IF a < b THEN a ELSE b

DecEq(x, y) ==
    x.c * Pow(10, x.e - MinOf(x.e, y.e)) = y.c * Pow(10, y.e - MinOf(x.e, y.e))

FloatEqDec(f, d) ==
    IF d.e <= 0 THEN f.m * Pow(10, 0 - d.e) = d.c * Pow(2, FloatBits)
    ELSE f.m = d.c * Pow(10, d.e) * Pow(2, FloatBits)

NumEq(a, b) ==
    IF a.t = "float" /\ b.t = "float" THEN a.m = b.m
    ELSE IF a.t = "float" THEN FloatEqDec(a, DecOf(b))
    ELSE IF b.t = "float" THEN FloatEqDec(b, DecOf(a))
    ELSE DecEq(DecOf(a), DecOf(b))

\* v has d's shape and every number of v equals the number at its place in d.
RECURSIVE NumsEqual(_, _)
NumsEqual(v, d) ==
    IF IsNum(d) THEN IsNum(v) /\ NumEq(v, d)
    ELSE IF d.t = "list"
    THEN /\ v.t = "list"
         /\ Len(v.lv) = Len(d.lv)
         /\ \A i \in 1..Len(d.lv) : NumsEqual(v.lv[i], d.lv[i])
    ELSE IF d.t = "dict"
    THEN /\ v.t = "dict"
         /\ Len(v.dv) = Len(d.dv)
         /\ \A i \in 1..Len(d.dv) :
               v.dv[i][1] = d.dv[i][1] /\ NumsEqual(v.dv[i][2], d.dv[i][2])
    ELSE TRUE

InFlight == (IF endpointIn = NoMsg THEN 0 ELSE 1) + (IF replyBuf = NoText THEN 0 ELSE 1)

\* Caller t begins an accessor call in this step.
Begins(t) == ncalls'[t] # ncalls[t]

(***************************************************************************)
(* C1: every accessor call passes exactly one string to send_string, the   *)
(* colon-joined fields of its kind with the arguments as given: an empty   *)
(* symbol or parameter list and a negative bar count are sent as they are. *)
(***************************************************************************)
C1_WireFormat ==
    \A t \in Threads :
       ncalls[t] > 0 =>
          /\ Len(sent[t]) = 1
          /\ sent[t][1] = JoinColon(Fields(req[t]))
          /\ req[t] = Req("INDICATOR", "EURUSD.a", "H1", "MA", "14,0,1,0", 10)
                => sent[t][1] = "INDICATOR:EURUSD.a:H1:MA:14,0,1,0:10"
          /\ req[t] = Req("INDICATOR", "", "H1", "MA", "", -1)
                => sent[t][1] = "INDICATOR::H1:MA::-1"
          /\ req[t] = Req("HIST", "EURUSD.a", "H1", "", "", -1)
                => sent[t][1] = "HIST:EURUSD.a:H1:-1"
          /\ req[t] = Req("CURRENT", "EURUSD.a", "", "", "", 0)
                => sent[t][1] = "CURRENT:EURUSD.a"
          /\ req[t] = Req("TIMEFRAMES", "", "", "", "", 0)
                => sent[t][1] = "TIMEFRAMES:"

C1_Witness ==
    \E t \in Threads :
       /\ req[t] = Req("INDICATOR", "EURUSD.a", "H1", "MA", "", 10)
       /\ sent[t] = <<"INDICATOR:EURUSD.a:H1:MA::10">>
       /\ sendOutcome[t] = "ok"

(***************************************************************************)
(* C2: a received reply that is the text of a document other than a        *)
(* mapping with an error field makes the accessor return that document:    *)
(* the same fields for an object, the same records in the same order for   *)
(* an array.                                                               *)
(***************************************************************************)
C2_ParsedValueReturned ==
    \A t \in Threads :
       Finished(t) /\ recvOutcome[t] = "ok" =>
          \A e \in DocTable :
             reply[t] = e.text /\ ~IsErrorMapping(e.doc) =>
                /\ pc[t] = "returned"
                /\ result[t] = e.doc
                /\ e.doc.t = "list" => Len(result[t].lv) = Len(e.doc.lv)

C2_Witness ==
    \E t \in Threads :
       /\ pc[t] = "returned"
       /\ req[t].op = "TIMEFRAMES"
       /\ reply[t] = Dumps(TimeframesDoc, FALSE)
       /\ result[t] = TimeframesDoc
       /\ Len(result[t].lv) = 2

(***************************************************************************)
(* C3: whatever the operation, an empty reply makes the accessor return    *)
(* None without raising, and json.loads is not called on it.               *)
(***************************************************************************)
C3_EmptyReplyNoResult ==
    \A t \in Threads :
       Finished(t) /\ reply[t] = EmptyReply =>
          /\ pc[t] = "returned"
          /\ result[t] = None
          /\ ~jsonCalled[t]
          /\ diag[t] # <<>>
          /\ diag[t][Len(diag[t])] = "EmptyReply"

C3_Witness ==
    \E t \in Threads :
       /\ pc[t] = "returned"
       /\ req[t].op = "INDICATOR"
       /\ recvOutcome[t] = "ok"
       /\ reply[t] = EmptyReply
       /\ result[t] = None

(***************************************************************************)
(* C4: a non-empty reply that json.loads cannot decode is reported as a    *)
(* malformed reply and makes the accessor return None without raising.     *)
(***************************************************************************)
C4_MalformedReplyNoResult ==
    \A t \in Threads :
       Finished(t) /\ reply[t] \in Unparseable =>
          /\ pc[t] = "returned"
          /\ result[t] = None
          /\ diag[t] = <<"MalformedReply">>

(***************************************************************************)
(* C5: a reply that decodes to a mapping with a field named error, with    *)
(* any value and any other fields, makes the accessor return None; the     *)
(* message is not returned.                                                *)
(***************************************************************************)
C5_ErrorFieldNoResult ==
    \A t \in Threads :
       Finished(t) /\ recvOutcome[t] = "ok" =>
          \A e \in DocTable :
             reply[t] = e.text /\ IsErrorMapping(e.doc) =>
                /\ pc[t] = "returned"
                /\ result[t] = None
                /\ diag[t] = <<"RemoteError">>

C5_Witness ==
    \E t \in Threads :
       /\ pc[t] = "returned"
       /\ reply[t] = Dumps(ErrorNullDoc, FALSE)
       /\ result[t] = None

(***************************************************************************)
(* C6: every number of a returned document equals the decimal literal      *)
(* that was received: the tick's bid equals Decimal 1.23456 and its volume *)
(* equals 123.                                                             *)
(***************************************************************************)
C6_ExactDecimals ==
    \A t \in Threads :
       pc[t] = "returned" /\ recvOutcome[t] = "ok" =>
          /\ \A e \in DocTable :
                reply[t] = e.text /\ ~IsErrorMapping(e.doc) => NumsEqual(result[t], e.doc)
          /\ reply[t] \in {Dumps(TickDoc, TRUE), Dumps(TickDoc, FALSE)} =>
                /\ NumEq(DictGet(result[t].dv, S_bid), PyDecimal(0, 123456, -5))
                /\ NumEq(DictGet(result[t].dv, S_volume), PyDecimal(0, 123, 0))

C6_Witness ==
    \E t \in Threads :
       /\ pc[t] = "returned"
       /\ req[t].op = "CURRENT"
       /\ reply[t] = Dumps(TickDoc, TRUE)
       /\ DictGet(result[t].dv, S_bid) = PyDecimal(0, 123456, -5)
       /\ DictGet(result[t].dv, S_volume) = PyInt(123)

(***************************************************************************)
(* C7: a call in which a send error, a receive error, an empty reply, an   *)
(* undecodable reply or a remote error occurs ends by returning None, not  *)
(* by raising.                                                             *)
(***************************************************************************)
RequestFailed(t) ==
    \/ sendOutcome[t] # "ok"
    \/ recvOutcome[t] # "ok"
    \/ reply[t] = EmptyReply
    \/ reply[t] \in Unparseable
    \/ \E e \in DocTable : reply[t] = e.text /\ IsErrorMapping(e.doc)

C7_FailuresNeverRaised ==
    \A t \in Threads :
       Finished(t) /\ RequestFailed(t) => pc[t] = "returned" /\ result[t] = None

(***************************************************************************)
(* C8: after a call on the open bridge that ended in a failure, the socket *)
(* accepts the next request, so a later call can complete its round trip.  *)
(***************************************************************************)
C8_FailuresNonFatal ==
    \A t \in Threads :
       bridge = "open" /\ pc[t] = "returned" /\ diag[t] # <<>> =>
          SendResult(bridge, sock, TRUE) = "ok"

(***************************************************************************)
(* C9: strict alternation: at most one request is in flight, and no call   *)
(* on the open bridge attempts its send while the socket still awaits the  *)
(* reply to an earlier request.                                            *)
(***************************************************************************)
C9_StrictAlternation ==
    [][/\ InFlight' <= 1
       /\ \A t \in Threads : Begins(t) /\ bridge = "open" => sock = "ready"]_vars

(***************************************************************************)
(* C10 as stated: the bridge serializes all calls, those of concurrent     *)
(* callers included: no call begins its send while another caller's call   *)
(* is between its send and the end of its receive.                         *)
(***************************************************************************)
C10_AllCallsSerialized ==
    [][\A t \in Threads :
          Begins(t) => \A u \in Threads \ {t} : pc[u] # "recv"]_vars

(***************************************************************************)
(* C10 as amended: the calls of one caller are serialized: when a caller   *)
(* begins a call, its previous call has ended, and if that call sent its   *)
(* request, its receive has completed.                                     *)
(***************************************************************************)
C10_CallerSerialized ==
    [][\A t \in Threads :
          Begins(t) /\ ncalls[t] > 0 =>
             Finished(t) /\ (sendOutcome[t] = "ok" => recvs[t] = 1)]_vars

C10_Witness ==
    \E t \in Threads, u \in Threads :
       /\ t # u
       /\ ncalls[t] = 2
       /\ pc[t] = "recv"
       /\ ncalls[u] = 1
       /\ sendOutcome[u] = "EFSM"

(***************************************************************************)
(* C11: __init__ calls socket.connect once.  When it fails the exception   *)
(* is re-raised: the constructor hands back no bridge, so no accessor call *)
(* is ever made on it, nothing is sent, and connect is not called again.   *)
(***************************************************************************)
C11_ConnectOnceFailureRaised ==
    /\ connects <= 1
    /\ bridge = "connecting" <=> connects = 0
    /\ bridge = "connect_failed" =>
          /\ connects = 1
          /\ \A t \in Threads : ncalls[t] = 0 /\ pc[t] = "idle" /\ sent[t] = <<>>
          /\ sock = "ready"
          /\ endpointIn = NoMsg

C11_Witness == bridge = "connect_failed" /\ connects = 1

(***************************************************************************)
(* C12: an accessor call begun after close() passes nothing to send_string *)
(* and calls recv_string not at all: the closed channel is not used.       *)
(***************************************************************************)
C12_NoUseAfterClose ==
    [][\A t \in Threads :
          Begins(t) /\ bridge = "closed" => sent'[t] = <<>> /\ recvs'[t] = 0]_vars

C15_NoRetry ==
    \A t \in Threads :
       /\ Len(sent[t]) <= 1
       /\ recvs[t] <= 1
       /\ Finished(t) =>
             /\ Len(sent[t]) = 1
             /\ recvs[t] = IF sendOutcome[t] = "ok" THEN 1 ELSE 0

C15_Witness ==
    \E t \in Threads :
       /\ pc[t] = "returned"
       /\ sendOutcome[t] = "ok"
       /\ recvOutcome[t] = "ZMQError"
       /\ result[t] = None
       /\ Len(sent[t]) = 1
       /\ recvs[t] = 1

(***************************************************************************)
(* C16: a call whose send succeeded waits in recv_string, and it leaves    *)
(* recv_string only with the reply that has arrived or with a transport    *)
(* error: while no reply has come and no error occurs it does not return.  *)
(***************************************************************************)
C16_BlocksUntilReplyOrError ==
    [][\A t \in Threads :
          /\ Begins(t) /\ sendOutcome'[t] = "ok" => pc'[t] = "recv"
          /\ pc[t] = "recv" /\ pc'[t] # "recv" =>
                \/ /\ replyBuf # NoText
                   /\ recvOutcome'[t] = "ok"
                   /\ reply'[t] = replyBuf
                \/ /\ recvOutcome'[t] = "ZMQError"
                   /\ reply'[t] = EmptyReply]_vars

C16_Witness ==
    \E t \in Threads :
       /\ pc[t] = "recv"
       /\ sendOutcome[t] = "ok"
       /\ endpointIn # NoMsg
       /\ replyBuf = NoText
       /\ recvs[t] = 0

(***************************************************************************)
(* C17 as stated: an accessor returns None only in a call that printed one *)
(* of the failure classes; every reply that decodes to something other     *)
(* than a mapping with an error field, the literal null and the empty      *)
(* array included, makes it return a value other than None.                *)
(***************************************************************************)
C17_NoneOnlyOnFailure ==
    \A t \in Threads :
       /\ pc[t] = "returned" /\ result[t] = None => diag[t] # <<>>
       /\ Finished(t) /\ recvOutcome[t] = "ok" =>
             \A e \in DocTable :
                reply[t] = e.text /\ ~IsErrorMapping(e.doc) =>
                   pc[t] = "returned" /\ result[t] # None

\* The replies that decode to None: the JSON literal null.
NullTexts == {r \in Replies \ {EmptyReply} : Loads(r).ok /\ Loads(r).val = None}

(***************************************************************************)
(* C17 as amended: an accessor returns None only in a call that printed    *)
(* one of the failure classes or received the literal null; every reply    *)
(* that decodes to a value other than null and other than a mapping with   *)
(* an error field, the empty array included, makes it return that value,   *)
(* which is not None, and print no failure.                                *)
(***************************************************************************)
C17_NoneOnFailureOrNull ==
    \A t \in Threads :
       /\ pc[t] = "returned" /\ result[t] = None =>
             \/ diag[t] # <<>>
             \/ recvOutcome[t] = "ok" /\ reply[t] \in NullTexts
       /\ Finished(t) /\ recvOutcome[t] = "ok" =>
             \A e \in DocTable :
                reply[t] = e.text /\ ~IsErrorMapping(e.doc) /\ e.doc # NullDoc =>
                   /\ pc[t] = "returned"
                   /\ result[t] # None
                   /\ diag[t] = <<>>
       /\ Finished(t) /\ reply[t] \in {Dumps(EmptyListDoc, TRUE), Dumps(EmptyListDoc, FALSE)} =>
             result[t] = PyList(<<>>)

C17_Witness ==
    \E t \in Threads :
       /\ pc[t] = "returned"
       /\ recvOutcome[t] = "ok"
       /\ reply[t] = Dumps(EmptyListDoc, FALSE)
       /\ result[t] = PyList(<<>>)
       /\ diag[t] = <<>>

\* A call in which the transport failed neither the send nor the receive,
\* made on the open bridge.
Undisturbed(so, ro) == so \in {"ok", "EFSM"} /\ ro # "ZMQError"

(***************************************************************************)
(* C13: a call repeated with the same arguments passes the same string to  *)
(* send_string as the first, and when the transport fails in neither and   *)
(* the endpoint answers both with the same text, it ends as the first did: *)
(* the same returned value or the same exception, the same lines printed.  *)
(* The second call is sent and received anew.                              *)
(***************************************************************************)
C13_RepeatedCallSameResult ==
    \A t \in Threads :
       repeatOf[t].pc # "none" =>
          /\ sent[t] = repeatOf[t].sent
          /\ Len(sent[t]) = 1
          /\ (/\ Finished(t)
              /\ Undisturbed(sendOutcome[t], recvOutcome[t])
              /\ Undisturbed(repeatOf[t].sendOutcome, repeatOf[t].recvOutcome)
              /\ (recvOutcome[t] = "ok" /\ repeatOf[t].recvOutcome = "ok"
                    => reply[t] = repeatOf[t].reply))
             => /\ pc[t] = repeatOf[t].pc
                /\ result[t] = repeatOf[t].result
                /\ exc[t] = repeatOf[t].exc
                /\ diag[t] = repeatOf[t].diag
                /\ recvOutcome[t] = repeatOf[t].recvOutcome

C13_Witness ==
    \E t \in Threads :
       /\ repeatOf[t].pc = "returned"
       /\ repeatOf[t].result = TickDoc
       /\ pc[t] = "returned"
       /\ sent[t] = <<"CURRENT:EURUSD.a">>
       /\ recvs[t] = 1
       /\ result[t] = TickDoc

(***************************************************************************)
(* C18: the reply a call receives is the one the endpoint wrote in answer  *)
(* to the request string of that same call, and what the call returns is   *)
(* the decoding of that reply: never the answer to an earlier request,     *)
(* whatever calls, failed ones included, came before.                      *)
(***************************************************************************)
C18_ReplyAnswersOwnRequest ==
    [][\A t \in Threads :
          /\ Begins(t) /\ sendOutcome'[t] = "ok" =>
                endpointIn' = sent'[t][1] /\ reqTag' = Tag(t, ncalls'[t])
          /\ pc[t] = "recv" /\ recvOutcome'[t] = "ok" =>
                /\ replyTag = Tag(t, ncalls[t])
                /\ reply'[t] = replyBuf
                /\ pc'[t] = "returned" => result'[t] = ParseResponse(replyBuf).val]_vars

C18_Witness ==
    \E t \in Threads :
       /\ ncalls[t] = 3
       /\ sendOutcome[t] = "ok"
       /\ recvOutcome[t] = "ok"
       /\ pc[t] = "returned"
       /\ req[t].op = "HIST"
       /\ result[t] = HistDoc
       /\ reqTag = NoTag
       /\ replyTag = NoTag

====
